---- MODULE Spec2Model ----
(***************************************************************************)
(* Model of the module extraction engine of ontobuilder/ontopilot          *)
(* (src/bin/ontopilot/module_extractor.py) together with the parts of the  *)
(* Ontology wrapper (src/bin/ontobuilder/ontology.py) it calls.            *)
(*                                                                         *)
(* An IRI is a string.  An OWL entity is a pair <<iri, kind>>.  An axiom   *)
(* is a 4-tuple of strings:                                                *)
(*   <<"Decl",   iri,  kind,    tag>>    declaration of entity <<iri,kind>>*)
(*   <<"Annot",  subjectIRI, propertyIRI, value>>  annotation assertion    *)
(*   <<"Sub",    kind, subIRI,  superIRI>>  subclass / subproperty axiom   *)
(*   <<"Opaque", name, "",      "">>     any other axiom                   *)
(* OWL axioms are compared together with their axiom annotations; "tag"    *)
(* stands for the annotations of a declaration axiom, so that one entity   *)
(* can have more than one declaration axiom (the code iterates over the    *)
(* set getDeclarationAxioms returns).                                      *)
(***************************************************************************)
EXTENDS Integers, FiniteSets, Sequences, TLC

VARIABLES
    source,       \* the source ontology: root axioms, imported axioms, ontology id
    slmeAxioms,   \* the axiom set SyntacticLocalityModuleExtractor.extract returns
    signatures,   \* self.signatures: extraction method -> set of entities
    pc,           \* position of extractModule: "idle", "hier", "single", "done"
    modont,       \* the module ontology being built / last returned
    hierset,      \* local of _getEntitiesInHierarchies
    axiomset,     \* local of _getEntitiesInHierarchies
    error,        \* exception raised by the last call, or NoError
    nAdds,        \* number of addEntity calls made
    nExtracts,    \* number of extractModule calls made
    hierPops,     \* history of the hierarchy loop: <<entities popped, entities
                  \* popped more than once>>
    singlePops,   \* the same history of the single-entity loop
    seeds,        \* history: the registry as it was when extractModule was called
    slmeCalls,    \* history: number of slme.extract calls in the current extractModule
    locContrib,   \* history: axioms inserted by the locality step of the current call
    call,         \* history: the last call made on the extractor and its arguments
    build,        \* the build targets: classes, dependencies, last result
    reader,       \* the table reader: workbook, numtables, curr_table
    table,        \* the table next() returned last, its last row and lookup
    reasoner_man  \* the _ReasonerManager: cache, instances made and disposed

vars == <<source, slmeAxioms, signatures, pc, modont, hierset, axiomset, error,
          nAdds, nExtracts, hierPops, singlePops, seeds, slmeCalls, locContrib,
          call, build, reader, table, reasoner_man>>

----------------------------------------------------------------------------
(* Bounds of the model. *)

MaxSubAxioms == 3      \* subsumption axioms in the source ontology
MaxAnnotAxioms == 2    \* annotation assertions in the source imports closure
MaxAdds == 2           \* addEntity calls
MaxExtracts == 1       \* extractModule calls
MaxTargets == 3        \* build targets
MaxTables == 2         \* sheets in a workbook
MaxNexts == 4          \* next() calls on a table reader after __iter__()
MaxReasoners == 3      \* reasoner instances created

----------------------------------------------------------------------------
(* Extraction methods: _ExtractMethodsStruct. *)

LOCALITY == 0
SINGLE == 1
HIERARCHY == 2
all_methods == {LOCALITY, SINGLE, HIERARCHY}

----------------------------------------------------------------------------
(* Entities, IRIs and axioms. *)

CLASS == "Class"
OBJECT_PROPERTY == "ObjectProperty"
DATA_PROPERTY == "DataProperty"
ANNOTATION_PROPERTY == "AnnotationProperty"
NAMED_INDIVIDUAL == "NamedIndividual"

None == "None"          \* a missing IRI (Python None / Optional.absent())
NoEntity == <<>>         \* a missing entity (Python None)
NoError == "NoError"
RuntimeError == "RuntimeError"

\* The super side of a subsumption axiom that is a class expression or
\* property expression rather than a named entity.
Anonymous == "_:anonymous"

\* df.getRDFSLabel()
rdfslabel == "rdfs:label"

\* Ontology.SOURCE_PROP_IRI
SOURCE_PROP_IRI == "dc:source"

Entity(iri, kind) == <<iri, kind>>
getIRI(ent) == ent[1]
getEntityType(ent) == ent[2]

Declaration(ent, tag) == <<"Decl", ent[1], ent[2], tag>>
AnnotationAssertion(subj, prop, val) == <<"Annot", subj, prop, val>>
SubAxiom(kind, sub, super) == <<"Sub", kind, sub, super>>
Opaque(name) == <<"Opaque", name, "", "">>

isDeclaration(ax) == ax[1] = "Decl"
isAnnotationAssertion(ax) == ax[1] = "Annot"
isSubAxiom(ax) == ax[1] = "Sub"
getEntity(ax) == Entity(ax[2], ax[3])          \* of a declaration axiom
getSubject(ax) == ax[2]                        \* of an annotation assertion
getProperty(ax) == ax[3]                       \* of an annotation assertion
getSub(ax) == Entity(ax[3], ax[2])             \* of a subsumption axiom
getSuper(ax) == Entity(ax[4], ax[2])           \* of a subsumption axiom
isAnonymous(ax) == ax[4] = Anonymous           \* super side of a subsumption axiom

----------------------------------------------------------------------------
(* Queries of the OWL API ontology objects. *)

\* A variant that leaves the imported ontologies out.
getImportsClosureRootOnly(src) == {src.root}

\* owlont.getImportsClosure(): the ontology and the ontologies it imports.
getImportsClosure(src) == {src.root, src.imp}

\* ont.getDeclarationAxioms(entity)
getDeclarationAxioms(ont, ent) ==
    {ax \in ont : isDeclaration(ax) /\ getEntity(ax) = ent}

\* ont.getAnnotationAssertionAxioms(iri)
getAnnotationAssertionAxioms(ont, iri) ==
    {ax \in ont : isAnnotationAssertion(ax) /\ getSubject(ax) = iri}

\* owlont.getSubClassAxiomsForSubClass(entity) and the three subproperty
\* variants: the axioms of the ontology itself (not of its imports) whose
\* sub side is the entity.
getSubAxiomsForSub(ont, ent) ==
    {ax \in ont : isSubAxiom(ax) /\ getSub(ax) = ent}

----------------------------------------------------------------------------
(* Ontology wrapper (ontology.py). *)

\* Strings that rfc3987 rejects as an IRI reference.
InvalidIRIStrings == {"not an iri"}

\* Prefix IRIs (curies) known to the ontology format, with their expansion.
PrefixIRIs == {"ex:A"}
prefixExpansion(s) == IF s = "ex:A" THEN "A" ELSE s

\* A variant of expandIRI without the rfc3987 check.
expandIRIUnvalidated(s) ==
    IF s \in PrefixIRIs THEN prefixExpansion(s) ELSE s

\* Ontology.expandIRI / expandIdentifier: None stands for the RuntimeError.
expandIRI(s) ==
    IF s \in InvalidIRIStrings THEN None
    ELSE IF s \in PrefixIRIs THEN prefixExpansion(s)
    ELSE s

\* Is the entity declared in one of the ontologies of the closure?
isDeclaredIn(closure, ent) ==
    \E ont \in closure : getDeclarationAxioms(ont, ent) # {}

\* Ontology.getExistingClass and the property variants: the entity, or NoEntity.
getExistingOfKind(closure, iri, kind) ==
    IF isDeclaredIn(closure, Entity(iri, kind)) THEN Entity(iri, kind) ELSE NoEntity

getExistingClass(closure, iri) == getExistingOfKind(closure, iri, CLASS)
getExistingObjectProperty(closure, iri) == getExistingOfKind(closure, iri, OBJECT_PROPERTY)
getExistingDataProperty(closure, iri) == getExistingOfKind(closure, iri, DATA_PROPERTY)
getExistingAnnotationProperty(closure, iri) ==
    getExistingOfKind(closure, iri, ANNOTATION_PROPERTY)

\* Ontology.getExistingProperty: object, then annotation, then data property.
getExistingProperty(closure, iri) ==
    IF getExistingObjectProperty(closure, iri) # NoEntity
    THEN getExistingObjectProperty(closure, iri)
    ELSE IF getExistingAnnotationProperty(closure, iri) # NoEntity
    THEN getExistingAnnotationProperty(closure, iri)
    ELSE getExistingDataProperty(closure, iri)

\* A variant of getExistingEntity that looks for classes only.
getExistingEntityClassOnly(closure, iri) == getExistingClass(closure, iri)

\* Ontology.getExistingEntity: a class, else a property, else NoEntity.
getExistingEntity(closure, iri) ==
    IF getExistingClass(closure, iri) # NoEntity
    THEN getExistingClass(closure, iri)
    ELSE getExistingProperty(closure, iri)

\* target.addEntityAxiom(axiom): insertion into the axiom set of the module.
addEntityAxiom(axioms, ax) == axioms \cup {ax}

\* "for axiom in axs: target.addEntityAxiom(axiom)"
addEntityAxioms(axioms, axs) ==
    UNION ({axioms} \cup {addEntityAxiom(axioms, ax) : ax \in axs})

\* Ontology.setOntologySource: adds one dc:source ontology annotation.
setOntologySource(annots, sourceIRI) == annots \cup {<<SOURCE_PROP_IRI, sourceIRI>>}

\* A variant that prefers the ontology IRI.
sourceIRIOfOntologyFirst(src) ==
    IF src.ontologyIRI # None THEN src.ontologyIRI
    ELSE IF src.versionIRI # None THEN src.versionIRI
    ELSE None

\* The provenance IRI extractModule chooses: version IRI, else ontology IRI.
sourceIRIOf(src) ==
    IF src.versionIRI # None THEN src.versionIRI
    ELSE IF src.ontologyIRI # None THEN src.ontologyIRI
    ELSE None

----------------------------------------------------------------------------
(* ModuleExtractor (module_extractor.py). *)

EmptySignatures == [method \in all_methods |-> {}]

NoModule == [id |-> None, axioms |-> {}, annotations |-> {}]

NoPops == <<{}, {}>>

\* Record one more pop of the entity in a pop history.
Popped(hist, ent) ==
    <<hist[1] \cup {ent},
      IF ent \in hist[1] THEN hist[2] \cup {ent} ELSE hist[2]>>

\* The last call made: the operation and its arguments (the identifier is
\* entity_id or mod_iri).
Call(op, id, method, include_branch) ==
    [op |-> op, id |-> id, method |-> method, include_branch |-> include_branch]

NoCall == Call("none", "", LOCALITY, FALSE)

\* slme.extract(signature): the external STAR locality algorithm.  Its result
\* is an input of the model; it is not empty, also for an empty signature.
slmeExtract(sig) == slmeAxioms

\* A variant of the guard that lets the empty signature through.
localityGuardNonNegative(sig) == Cardinality(sig) >= 0

\* The guard of the locality step: len(self.signatures[methods.LOCALITY]) > 0
localityGuard(sig) == Cardinality(sig) > 0

\* A variant of clearSignatures that leaves the Locality set as it is.
clearSignaturesButLocality ==
    /\ pc \in {"idle", "done"}
    /\ signatures' = [EmptySignatures EXCEPT ![LOCALITY] = signatures[LOCALITY]]
    /\ error' = NoError
    /\ call' = Call("clearSignatures", "", LOCALITY, FALSE)
    /\ UNCHANGED <<source, slmeAxioms, pc, modont, hierset, axiomset, nAdds,
                   nExtracts, hierPops, singlePops, seeds, slmeCalls, locContrib,
                   build, reader, table, reasoner_man>>

\* clearSignatures()
clearSignatures ==
    /\ pc \in {"idle", "done"}
    /\ signatures' = EmptySignatures
    /\ error' = NoError
    /\ call' = Call("clearSignatures", "", LOCALITY, FALSE)
    /\ UNCHANGED <<source, slmeAxioms, pc, modont, hierset, axiomset, nAdds,
                   nExtracts, hierPops, singlePops, seeds, slmeCalls, locContrib,
                   build, reader, table, reasoner_man>>

\* A variant of set.add that takes out an element that is already in the set.
setAddToggling(set, ents) == (set \ ents) \cup (ents \ set)

\* set.add: self.signatures[method].add(...)
setAdd(set, ents) == set \cup ents

\* A variant that adds the children of the entity when include_branch is set.
entitiesAddedWithChildren(src, entity, include_branch) ==
    IF include_branch
    THEN {entity} \cup {getSub(ax) : ax \in {a \in src.root : /\ isSubAxiom(a)
                                                           /\ getSuper(a) = entity}}
    ELSE {entity}

\* The entities a successful addEntity puts into the signature: the entity
\* itself; include_branch is not read.
entitiesAdded(src, entity, include_branch) == {entity}

\* A variant that puts the entities into the set of every method.
signaturesWithInAll(sigs, method, ents) ==
    [m \in all_methods |-> setAdd(sigs[m], ents)]

\* The registry after the entities were put into the set of the method.
signaturesWith(sigs, method, ents) ==
    [sigs EXCEPT ![method] = setAdd(@, ents)]

\* self.ontology.getExistingEntity(entity_id), None for an identifier that
\* does not expand.
resolveEntity(src, entity_id) ==
    LET eIRI == expandIRI(entity_id)
    IN  IF eIRI = None THEN NoEntity
        ELSE getExistingEntity(getImportsClosure(src), eIRI)

\* addEntity(entity_id, method, include_branch)
addEntity(entity_id, method, include_branch) ==
    /\ pc \in {"idle", "done"}
    /\ nAdds < MaxAdds
    /\ nAdds' = nAdds + 1
    /\ call' = Call("addEntity", entity_id, method, include_branch)
    /\ LET entity == resolveEntity(source, entity_id)
       IN  IF entity = NoEntity
           THEN /\ error' = RuntimeError
                /\ UNCHANGED signatures
           ELSE /\ error' = NoError
                /\ signatures' =
                       signaturesWith(signatures, method,
                                      entitiesAdded(source, entity, include_branch))
    /\ UNCHANGED <<source, slmeAxioms, pc, modont, hierset, axiomset,
                   nExtracts, hierPops, singlePops, seeds, slmeCalls, locContrib,
                   build, reader, table, reasoner_man>>

\* extractModule(mod_iri), up to the call of _getEntitiesInHierarchies:
\* creates the module ontology, sets its id and runs the locality step.
extractModule(mod_iri) ==
    /\ pc \in {"idle", "done"}
    /\ nExtracts < MaxExtracts
    /\ nExtracts' = nExtracts + 1
    /\ call' = Call("extractModule", mod_iri, LOCALITY, FALSE)
    /\ IF expandIRI(mod_iri) = None
       THEN /\ error' = RuntimeError
            /\ UNCHANGED <<pc, modont, hierset, axiomset, hierPops, singlePops,
                           seeds, slmeCalls, locContrib>>
       ELSE LET run == localityGuard(signatures[LOCALITY])
                mod_axioms == IF run THEN slmeExtract(signatures[LOCALITY]) ELSE {}
            IN  /\ error' = NoError
                /\ modont' = [id |-> expandIRI(mod_iri),
                              axioms |-> addEntityAxioms({}, mod_axioms),
                              annotations |-> {}]
                /\ slmeCalls' = IF run THEN 1 ELSE 0
                /\ locContrib' = mod_axioms
                /\ hierset' = {}
                /\ axiomset' = {}
                /\ hierPops' = NoPops
                /\ singlePops' = NoPops
                /\ seeds' = signatures
                /\ pc' = "hier"
    /\ UNCHANGED <<source, slmeAxioms, signatures, nAdds,
                   build, reader, table, reasoner_man>>

\* A variant that looks the entity up on the super side of the axioms.
hierarchyAxiomsForSuper(owlont, entity) ==
    {ax \in owlont : isSubAxiom(ax) /\ getSuper(ax) = entity}

\* The subsumption axioms _getEntitiesInHierarchies looks up for an entity:
\* classes and the three kinds of properties have a branch, nothing else.
hierarchyAxiomsFor(owlont, entity) ==
    IF getEntityType(entity) \in
           {CLASS, OBJECT_PROPERTY, DATA_PROPERTY, ANNOTATION_PROPERTY}
    THEN getSubAxiomsForSub(owlont, entity)
    ELSE {}

\* A variant without the test for an anonymous super side.
recordedAxiomsUntested(entity, axioms) == axioms

\* Of these, the axioms added to axiomset: those whose super side is not
\* anonymous (the annotation property branch has no such test).
recordedAxioms(entity, axioms) ==
    {ax \in axioms :
        getEntityType(entity) = ANNOTATION_PROPERTY \/ ~isAnonymous(ax)}

\* A variant that pushes the super entity whether or not it was processed.
pushSuperAlways(super, hs) == TRUE

\* "if not(superclass in hierset): signature.add(superclass)"
pushSuper(super, hs) == super \notin hs

\* One iteration of the while loop of _getEntitiesInHierarchies; the work
\* queue is the set self.signatures[methods.HIERARCHY] itself.
getEntitiesInHierarchiesStep ==
    /\ pc = "hier"
    /\ Cardinality(signatures[HIERARCHY]) > 0
    /\ \E entity \in signatures[HIERARCHY] :
          LET hs == hierset \cup {entity}
              recorded == recordedAxioms(entity,
                              hierarchyAxiomsFor(source.root, entity))
              pushed == {getSuper(ax) : ax \in
                            {a \in recorded : pushSuper(getSuper(a), hs)}}
          IN  /\ hierset' = hs
              /\ axiomset' = axiomset \cup recorded
              /\ signatures' = [signatures EXCEPT
                                   ![HIERARCHY] = (@ \ {entity}) \cup pushed]
              /\ hierPops' = Popped(hierPops, entity)
    /\ UNCHANGED <<source, slmeAxioms, pc, modont, error, nAdds, nExtracts,
                   singlePops, seeds, slmeCalls, locContrib, call,
                   build, reader, table, reasoner_man>>

\* A variant that does not hand the closure set to single-entity extraction.
getEntitiesInHierarchiesReturnUnfed ==
    /\ pc = "hier"
    /\ Cardinality(signatures[HIERARCHY]) = 0
    /\ pc' = "single"
    /\ UNCHANGED <<source, slmeAxioms, signatures, modont, hierset, axiomset,
                   error, nAdds, nExtracts, hierPops, singlePops, seeds,
                   slmeCalls, locContrib, call,
                   build, reader, table, reasoner_man>>

\* The hierarchy loop ends; extractModule adds hierset to the SINGLE set.
getEntitiesInHierarchiesReturn ==
    /\ pc = "hier"
    /\ Cardinality(signatures[HIERARCHY]) = 0
    /\ signatures' = [signatures EXCEPT ![SINGLE] = @ \cup hierset]
    /\ pc' = "single"
    /\ UNCHANGED <<source, slmeAxioms, modont, hierset, axiomset, error, nAdds,
                   nExtracts, hierPops, singlePops, seeds, slmeCalls, locContrib, call,
                   build, reader, table, reasoner_man>>

\* A variant without the test against the target module.
annotationPropertiesUnchecked(annot_axioms, targetAxioms, src) ==
    {Entity(getProperty(ax), ANNOTATION_PROPERTY) : ax \in
        {a \in annot_axioms :
            /\ getProperty(a) # rdfslabel
            /\ getExistingAnnotationProperty(getImportsClosure(src),
                   getProperty(a)) # NoEntity}}

\* A variant that looks for the property in the source ontology itself only,
\* not in its imports.
annotationPropertiesRootDeclared(annot_axioms, targetAxioms, src) ==
    {Entity(getProperty(ax), ANNOTATION_PROPERTY) : ax \in
        {a \in annot_axioms :
            /\ getProperty(a) # rdfslabel
            /\ getExistingAnnotationProperty({targetAxioms}, getProperty(a))
                   = NoEntity
            /\ getExistingAnnotationProperty({src.root}, getProperty(a))
                   # NoEntity}}

\* A variant that does not skip rdfs:label.
annotationPropertiesWithLabel(annot_axioms, targetAxioms, src) ==
    {Entity(getProperty(ax), ANNOTATION_PROPERTY) : ax \in
        {a \in annot_axioms :
            /\ getExistingAnnotationProperty({targetAxioms}, getProperty(a))
                   = NoEntity
            /\ getExistingAnnotationProperty(getImportsClosure(src),
                   getProperty(a)) # NoEntity}}

\* The annotation properties an iteration of _extractSingleEntities adds to
\* its work queue: predicates of the entity's annotation assertions, other
\* than rdfs:label, not declared in the target and declared in the source.
annotationPropertiesToExtract(annot_axioms, targetAxioms, src) ==
    {Entity(getProperty(ax), ANNOTATION_PROPERTY) : ax \in
        {a \in annot_axioms :
            /\ getProperty(a) # rdfslabel
            /\ getExistingAnnotationProperty({targetAxioms}, getProperty(a))
                   = NoEntity
            /\ getExistingAnnotationProperty(getImportsClosure(src),
                   getProperty(a)) # NoEntity}}

\* A variant that takes the subsumption axioms of the entity as well.
declarationAxiomsOfWithSubsumptions(ontset, owlent) ==
    UNION {getDeclarationAxioms(ont, owlent) \cup getSubAxiomsForSub(ont, owlent) :
              ont \in ontset}

\* "ontset = self.owlont.getImportsClosure(); for ont in ontset:
\*  dec_axioms = ont.getDeclarationAxioms(owlent)"
declarationAxiomsOf(ontset, owlent) ==
    UNION {getDeclarationAxioms(ont, owlent) : ont \in ontset}

\* "for ont in ontset: annot_axioms = ont.getAnnotationAssertionAxioms(...)"
annotationAxiomsOf(ontset, owlent) ==
    UNION {getAnnotationAssertionAxioms(ont, getIRI(owlent)) : ont \in ontset}

\* The body of the while loop of _extractSingleEntities for the popped entity
\* owlent: the work queue and the axioms of the target after the iteration.
extractSingleEntity(owlent, signature, targetAxioms, src) ==
    LET ontset == getImportsClosure(src)
        dec_axioms == declarationAxiomsOf(ontset, owlent)
        annot_axioms == annotationAxiomsOf(ontset, owlent)
        withDecs == addEntityAxioms(targetAxioms, dec_axioms)
    IN  [signature |-> (signature \ {owlent}) \cup
                          annotationPropertiesToExtract(annot_axioms, withDecs, src),
         axioms |-> addEntityAxioms(withDecs, annot_axioms)]

\* A variant that writes the axioms into the source ontology.
extractSingleEntitiesStepIntoSource ==
    /\ pc = "single"
    /\ Cardinality(signatures[SINGLE]) > 0
    /\ \E owlent \in signatures[SINGLE] :
          LET res == extractSingleEntity(owlent, signatures[SINGLE],
                                         modont.axioms, source)
          IN  /\ source' = [source EXCEPT !.root = @ \cup res.axioms]
              /\ signatures' = [signatures EXCEPT ![SINGLE] = res.signature]
              /\ singlePops' = Popped(singlePops, owlent)
    /\ UNCHANGED <<modont, slmeAxioms, pc, hierset, axiomset, error, nAdds,
                   nExtracts, hierPops, seeds, slmeCalls, locContrib, call,
                   build, reader, table, reasoner_man>>

\* One iteration of the while loop of _extractSingleEntities; the work queue
\* is the set self.signatures[methods.SINGLE] itself, and pop() takes any
\* element of it.
extractSingleEntitiesStep ==
    /\ pc = "single"
    /\ Cardinality(signatures[SINGLE]) > 0
    /\ \E owlent \in signatures[SINGLE] :
          LET res == extractSingleEntity(owlent, signatures[SINGLE],
                                         modont.axioms, source)
          IN  /\ modont' = [modont EXCEPT !.axioms = res.axioms]
              /\ signatures' = [signatures EXCEPT ![SINGLE] = res.signature]
              /\ singlePops' = Popped(singlePops, owlent)
    /\ UNCHANGED <<source, slmeAxioms, pc, hierset, axiomset, error, nAdds,
                   nExtracts, hierPops, seeds, slmeCalls, locContrib, call,
                   build, reader, table, reasoner_man>>

\* _extractSingleEntities(signature, target) as a whole: the axioms of the
\* target when the loop has emptied the work queue.
RECURSIVE extractSingleEntities(_, _, _)
extractSingleEntities(signature, targetAxioms, src) ==
    IF signature = {} THEN targetAxioms
    ELSE LET owlent == CHOOSE e \in signature : TRUE
             res == extractSingleEntity(owlent, signature, targetAxioms, src)
         IN  extractSingleEntities(res.signature, res.axioms, src)

\* A variant that returns without adding the subsumption axioms.
extractModuleReturnNoSubsumptions ==
    /\ pc = "single"
    /\ Cardinality(signatures[SINGLE]) = 0
    /\ modont' = [modont EXCEPT
                     !.annotations = IF sourceIRIOf(source) # None
                                     THEN setOntologySource(@, sourceIRIOf(source))
                                     ELSE @]
    /\ pc' = "done"
    /\ UNCHANGED <<source, slmeAxioms, signatures, hierset, axiomset, error,
                   nAdds, nExtracts, hierPops, singlePops, seeds, slmeCalls,
                   locContrib, call,
                   build, reader, table, reasoner_man>>

\* The single-entity loop ends; extractModule adds the subsumption axioms
\* and the dc:source annotation and returns the module.
extractModuleReturn ==
    /\ pc = "single"
    /\ Cardinality(signatures[SINGLE]) = 0
    /\ modont' = [modont EXCEPT
                     !.axioms = addEntityAxioms(@, axiomset),
                     !.annotations = IF sourceIRIOf(source) # None
                                     THEN setOntologySource(@, sourceIRIOf(source))
                                     ELSE @]
    /\ pc' = "done"
    /\ UNCHANGED <<source, slmeAxioms, signatures, hierset, axiomset, error,
                   nAdds, nExtracts, hierPops, singlePops, seeds, slmeCalls,
                   locContrib, call,
                   build, reader, table, reasoner_man>>

\* _getEntitiesInHierarchies(signature) as a whole: hierset and axiomset when
\* the loop has emptied the work queue.
RECURSIVE getEntitiesInHierarchies(_, _, _, _)
getEntitiesInHierarchies(signature, hs0, axs, owlont) ==
    IF signature = {} THEN [hierset |-> hs0, axiomset |-> axs]
    ELSE LET entity == CHOOSE e \in signature : TRUE
             hs == hs0 \cup {entity}
             recorded == recordedAxioms(entity, hierarchyAxiomsFor(owlont, entity))
             pushed == {getSuper(ax) : ax \in
                           {a \in recorded : pushSuper(getSuper(a), hs)}}
         IN  getEntitiesInHierarchies((signature \ {entity}) \cup pushed, hs,
                                      axs \cup recorded, owlont)

\* extractModule(mod_iri) as a whole: the axioms of the module it returns
\* when called with the registry sigs.
extractModuleAxioms(sigs, src) ==
    LET mod_axioms == IF localityGuard(sigs[LOCALITY])
                      THEN slmeExtract(sigs[LOCALITY]) ELSE {}
        hier == getEntitiesInHierarchies(sigs[HIERARCHY], {}, {}, src.root)
        single == extractSingleEntities(sigs[SINGLE] \cup hier.hierset,
                                        addEntityAxioms({}, mod_axioms), src)
    IN  addEntityAxioms(single, hier.axiomset)

----------------------------------------------------------------------------
(* Table readers (src/bin/ontobuilder/tablereader.py, tablereader_excel.py)  *)
(* and the reasoner manager (importmodulebuilder.py).  Strings whose case    *)
(* and surrounding whitespace matter (column names, cell values, reasoner    *)
(* names) are sequences of characters, so that lower() and strip() are       *)
(* computed, not assumed.                                                    *)

\* The lower-case form of a character.
lowerChar(c) ==
    CASE c = "A" -> "a" [] c = "B" -> "b" [] c = "C" -> "c" [] c = "D" -> "d"
      [] c = "E" -> "e" [] c = "F" -> "f" [] c = "G" -> "g" [] c = "H" -> "h"
      [] c = "I" -> "i" [] c = "J" -> "j" [] c = "K" -> "k" [] c = "L" -> "l"
      [] c = "M" -> "m" [] c = "N" -> "n" [] c = "O" -> "o" [] c = "P" -> "p"
      [] c = "Q" -> "q" [] c = "R" -> "r" [] c = "S" -> "s" [] c = "T" -> "t"
      [] c = "U" -> "u" [] c = "V" -> "v" [] c = "W" -> "w" [] c = "X" -> "x"
      [] c = "Y" -> "y" [] c = "Z" -> "z"
      [] OTHER -> c

\* str.lower()
lower(s) == [i \in 1 .. Len(s) |-> lowerChar(s[i])]

RECURSIVE lstrip(_)
lstrip(s) == IF s # <<>> /\ Head(s) = " " THEN lstrip(Tail(s)) ELSE s

RECURSIVE rstrip(_)
rstrip(s) ==
    IF s # <<>> /\ s[Len(s)] = " " THEN rstrip(SubSeq(s, 1, Len(s) - 1)) ELSE s

\* str.strip()
strip(s) == rstrip(lstrip(s))

\* Iterating a str yields its characters, each a str of length one.
characters(s) == [i \in 1 .. Len(s) |-> <<s[i]>>]

\* x in list
inList(x, list) == \E i \in 1 .. Len(list) : list[i] = x

\* A dict, and d[key] = value.
EmptyDict == [k \in {} |-> <<>>]
setitem(dict, key, value) ==
    [k \in DOMAIN dict \cup {key} |-> IF k = key THEN value ELSE dict[k]]

\* The column names and values the builders use.
ID == <<"I", "D">>
Type == <<"T", "y", "p", "e">>
Exclude == <<"E", "x", "c", "l", "u", "d", "e">>
SeedDescendants == <<"S", "e", "e", "d", " ", "d", "e", "s", "c", "e", "n",
                     "d", "a", "n", "t", "s">>
Reasoner == <<"R", "e", "a", "s", "o", "n", "e", "r">>
HermiT == <<"H", "e", "r", "m", "i", "T">>

\* ImportModuleBuilder.REQUIRED_COLS = ('ID'): parentheses without a comma
\* make a str, not a tuple, and setRequiredColumns iterates over it.
ImportModuleBuilder_REQUIRED_COLS == characters(ID)
ImportModuleBuilder_OPTIONAL_COLS == <<Exclude, SeedDescendants, Reasoner>>
ImportModuleBuilder_DEFAULT_COL_VALS == setitem(EmptyDict, Reasoner, HermiT)

\* OntoBuildTarget.REQUIRED_COLS = ('Type', 'ID'), a tuple.
OntoBuildTarget_REQUIRED_COLS == <<Type, ID>>

StopIteration == "StopIteration"
KeyError == "KeyError"
ColumnNameError == "ColumnNameError"
AttributeError == "AttributeError"

\* What a TableRow holds as its table: a BaseTable instance, or the file
\* name (a str) that _ExcelTable.next() passes in that position.
TableInstance == "BaseTable"
FileNameStr == "str"

\* TableRow.__init__
TableRow(rownum, tbl, required_cols, optional_cols, default_vals) ==
    [rownum |-> rownum, table |-> tbl, required |-> required_cols,
     optional |-> optional_cols, data |-> EmptyDict, defaults |-> default_vals]

NoRow == TableRow(0, FileNameStr, <<>>, <<>>, EmptyDict)

\* TableRow.__setitem__
__setitem__(trow, colname, value) ==
    [trow EXCEPT !.data = setitem(@, lower(colname), strip(value))]

\* TableRowError.__init__ builds its message with _generateContextStr, which
\* calls tablerow.getTable().getTableReader(): an AttributeError when the
\* row's table is a str.
TableRowError(errclass, tablerow) ==
    IF tablerow.table = TableInstance THEN errclass ELSE AttributeError

\* The outcome of a lookup: the value returned or the exception raised, and
\* whether a warning was logged.
Lookup(colname, value, err, warning) ==
    [colname |-> colname, value |-> value, error |-> err, warning |-> warning]

NoLookup == Lookup(<<>>, <<>>, NoError, FALSE)

\* TableRow.__getitem__
__getitem__(trow, colname) ==
    LET name == lower(colname)
    IN  IF name \in DOMAIN trow.data
        THEN Lookup(colname, trow.data[name], NoError, FALSE)
        ELSE IF inList(name, trow.required)
        THEN Lookup(colname, <<>>, TableRowError(ColumnNameError, trow), FALSE)
        ELSE Lookup(colname,
                    IF name \in DOMAIN trow.defaults THEN trow.defaults[name]
                    ELSE <<>>,
                    NoError, ~inList(name, trow.optional))

\* An _ExcelTable: the sheet it reads, its column names, its row counter and
\* the column settings of BaseTable.
Table(sheet, colnames, numrows, rowcnt, required_cols, optional_cols, defaultvals) ==
    [sheet |-> sheet, colnames |-> colnames, numrows |-> numrows,
     rowcnt |-> rowcnt, required_cols |-> required_cols,
     optional_cols |-> optional_cols, defaultvals |-> defaultvals]

NoSheet == -1
NoTable == Table(NoSheet, <<>>, 0, 0, <<>>, <<>>, EmptyDict)

\* A table or the exception raised instead of returning one.
TableResult(tbl, err) == [table |-> tbl, error |-> err]

\* The cells of the first row up to the first empty one.
RECURSIVE usedColumns(_)
usedColumns(cells) ==
    IF cells = <<>> \/ Head(cells) = <<>> THEN <<>>
    ELSE <<Head(cells)>> \o usedColumns(Tail(cells))

\* _ExcelTable.__init__ on sheet number index of the workbook.  BaseTable's
\* __init__ is called without the table reader, which leaves the column
\* settings empty all the same.
_ExcelTable(wbook, index) ==
    LET sheet == wbook[index + 1]
        numrows == Len(sheet)
        cells == IF numrows > 0 THEN usedColumns(sheet[1]) ELSE <<>>
        colnames == [i \in 1 .. Len(cells) |-> lower(strip(cells[i]))]
    IN  IF Len(cells) = 0 THEN TableResult(NoTable, RuntimeError)
        ELSE IF \E i, j \in 1 .. Len(colnames) : i < j /\ colnames[i] = colnames[j]
        THEN TableResult(NoTable, RuntimeError)
        ELSE TableResult(Table(index, colnames, numrows, 1, <<>>, <<>>, EmptyDict),
                         NoError)

\* ExcelTableReader.__init__ / BaseTableReader.__init__; log is the history
\* of the next() calls since the last __iter__(), restarted tells whether an
\* iteration was started after another.
ExcelTableReader(wbook) ==
    [wbook |-> wbook, numtables |-> Len(wbook), curr_table |-> -1, log |-> <<>>,
     restarted |-> FALSE]

\* ExcelTableReader.getTableByIndex
getTableByIndex(r, index) ==
    IF index < 0 \/ index >= r.numtables THEN TableResult(NoTable, KeyError)
    ELSE _ExcelTable(r.wbook, index)

\* The current table, the last row it returned and the last lookup in it.
NoTableState == [obj |-> NoTable, trow |-> NoRow, ret |-> NoLookup, error |-> NoError]

\* _ReasonerManager.__init__; created counts the reasoner instances made,
\* disposed holds the instances dispose() was called on, served is the
\* history of the names asked and instances returned since the last
\* disposeReasoners().
NoReasonerManager ==
    [reasoners |-> EmptyDict, created |-> 0, disposed |-> {}, served |-> {},
     op |-> "none", asked |-> <<>>, error |-> NoError]

----------------------------------------------------------------------------
(* Inputs: source ontologies, identifiers, results of the locality algorithm. *)

BoundedSubsets(S, n) == {T \in SUBSET S : Cardinality(T) <= n}

ClassA == Entity("A", CLASS)
ClassB == Entity("B", CLASS)
ClassC == Entity("C", CLASS)
PropP == Entity("P", ANNOTATION_PROPERTY)
PropQ == Entity("Q", ANNOTATION_PROPERTY)

\* No build target exists.
NoBuild == [cls |-> <<>>, dependencies |-> <<>>, ret |-> <<>>]

\* No table reader and no reasoner manager exist.
NoTables ==
    /\ reader = ExcelTableReader(<<>>)
    /\ table = NoTableState
    /\ reasoner_man = NoReasonerManager

\* The state of a ModuleExtractor after __init__ on the given source.
InitExtractor(src, slme) ==
    /\ source = src
    /\ slmeAxioms = slme
    /\ signatures = EmptySignatures
    /\ pc = "idle"
    /\ modont = NoModule
    /\ hierset = {}
    /\ axiomset = {}
    /\ error = NoError
    /\ nAdds = 0
    /\ nExtracts = 0
    /\ hierPops = NoPops
    /\ singlePops = NoPops
    /\ seeds = EmptySignatures
    /\ slmeCalls = 0
    /\ locContrib = {}
    /\ call = NoCall

\* A ModuleExtractor on the given source, and no build target.
InitOn(src, slme) ==
    /\ InitExtractor(src, slme)
    /\ build = NoBuild
    /\ NoTables

ModuleIRIs == {"http://example.org/module", "not an iri"}

\* Sources for the hierarchy resolver: every entity declared once, and up to
\* MaxSubAxioms subsumption axioms among three classes, an object
\* property, two data properties and two annotation properties, with
\* a self-loop (A < A), a cycle (A < B < C < A), anonymous super sides, and
\* a subclass axiom that an imported ontology states.
HierDeclarations ==
    {Declaration(Entity(c, CLASS), "") : c \in {"A", "B", "C"}}
    \cup {Declaration(Entity(r, OBJECT_PROPERTY), "") : r \in {"R"}}
    \cup {Declaration(Entity(d, DATA_PROPERTY), "") : d \in {"D", "E"}}
    \cup {Declaration(Entity(p, ANNOTATION_PROPERTY), "") : p \in {"P", "Q"}}

SubCandidates ==
    {SubAxiom(CLASS, "A", "A"), SubAxiom(CLASS, "A", "B"),
     SubAxiom(CLASS, "B", "C"), SubAxiom(CLASS, "C", "A"),
     SubAxiom(CLASS, "B", Anonymous)}
    \cup {SubAxiom(OBJECT_PROPERTY, "R", Anonymous)}
    \cup {SubAxiom(DATA_PROPERTY, "D", "E")}
    \cup {SubAxiom(ANNOTATION_PROPERTY, "P", "Q")}

ImportedSubCandidates == {SubAxiom(CLASS, "A", "C")}

HierSources ==
    {[root |-> HierDeclarations \cup (H \cap SubCandidates),
      imp |-> H \cap ImportedSubCandidates,
      ontologyIRI |-> "http://example.org/src", versionIRI |-> None] :
        H \in BoundedSubsets(SubCandidates \cup ImportedSubCandidates,
                             MaxSubAxioms)}

HierIDs == {"A", "B", "R", "D", "P"}

InitHier == \E src \in HierSources : InitOn(src, {Opaque("ax")})

\* Hierarchy requests followed by extraction.
NextHier ==
    \/ \E id \in HierIDs : addEntity(id, HIERARCHY, FALSE)
    \/ extractModule("http://example.org/module")
    \/ getEntitiesInHierarchiesStep
    \/ getEntitiesInHierarchiesReturn
    \/ extractSingleEntitiesStep
    \/ extractModuleReturn

SpecHier == InitHier /\ [][NextHier]_vars

\* extractModule runs to completion once called: the engine is synchronous.
FairSpecHier ==
    /\ SpecHier
    /\ WF_vars(getEntitiesInHierarchiesStep)
    /\ WF_vars(getEntitiesInHierarchiesReturn)

----------------------------------------------------------------------------
(* The hierarchy closure resolver. *)

\* The named subsumption axioms of an ontology whose sub side is in S.
NamedSubAxiomsOf(ont, S) ==
    {ax \in ont : isSubAxiom(ax) /\ getSub(ax) \in S /\ ~isAnonymous(ax)}

\* The entities reachable from S by zero or more named subsumption edges.
RECURSIVE ReachableFrom(_, _)
ReachableFrom(S, ont) ==
    LET next == S \cup {getSuper(ax) : ax \in NamedSubAxiomsOf(ont, S)}
    IN  IF next = S THEN S ELSE ReachableFrom(next, ont)

HierarchyDone == pc \in {"single", "done"}

\* C1: the hierarchy closure loop terminates on every source graph, cyclic
\* ones included, and no entity is popped from the work queue more than once.
C1_HierarchyLoopTerminates ==
    /\ [](hierPops[2] = {})
    /\ (pc = "hier") ~> (pc = "single")

\* The loop has finished on a cycle through the seed B.
C1_Witness ==
    /\ pc = "single"
    /\ {SubAxiom(CLASS, "A", "B"), SubAxiom(CLASS, "B", "C"),
        SubAxiom(CLASS, "C", "A")} \subseteq source.root
    /\ seeds[HIERARCHY] = {ClassB}
    /\ hierPops[1] = {ClassA, ClassB, ClassC}
    /\ hierPops[2] = {}

\* C2: the resolver returns as closure set exactly the entities reachable
\* from the Hierarchy seeds by named subsumption edges of the source
\* ontology, and as hierarchy axioms exactly the named subsumption axioms
\* whose sub entity is in the closure set.
C2_HierarchyClosureExact ==
    HierarchyDone =>
        /\ hierset = ReachableFrom(seeds[HIERARCHY], source.root)
        /\ axiomset = NamedSubAxiomsOf(source.root, hierset)

\* The cycle A < B < C < A requested at A.
C2_Witness ==
    /\ pc = "single"
    /\ seeds[HIERARCHY] = {ClassA}
    /\ NamedSubAxiomsOf(source.root, {ClassA, ClassB, ClassC}) =
           {SubAxiom(CLASS, "A", "B"), SubAxiom(CLASS, "B", "C"),
            SubAxiom(CLASS, "C", "A")}
    /\ hierset = {ClassA, ClassB, ClassC}
    /\ Cardinality(axiomset) = 3

\* The subsumption axioms of the source ontology with the entity as sub side.
SubAxiomsOf(ent) == getSubAxiomsForSub(source.root, ent)

OnlyAnonymousSupers(ent) ==
    /\ SubAxiomsOf(ent) # {}
    /\ \A ax \in SubAxiomsOf(ent) : isAnonymous(ax)

\* C3: a subsumption axiom with an anonymous super side is never recorded,
\* enqueues nothing and raises no error; an entity whose only super sides are
\* anonymous yields itself as closure set and no hierarchy axioms.
C3_AnonymousSuperSkipped ==
    /\ \A ax \in axiomset : ~isAnonymous(ax)
    /\ \A method \in all_methods :
          \A ent \in signatures[method] \cup hierset : getIRI(ent) # Anonymous
    /\ pc \in {"hier", "single"} => error = NoError
    /\ \A ent \in seeds[HIERARCHY] :
          (HierarchyDone /\ seeds[HIERARCHY] = {ent} /\ OnlyAnonymousSupers(ent))
              => (hierset = {ent} /\ axiomset = {})

\* Class B, whose only superclass is anonymous, requested alone.
C3_Witness ==
    /\ pc = "single"
    /\ seeds[HIERARCHY] = {ClassB}
    /\ SubAxiomsOf(ClassB) = {SubAxiom(CLASS, "B", Anonymous)}
    /\ hierset = {ClassB}
    /\ axiomset = {}

----------------------------------------------------------------------------
(* Sources for single-entity extraction: class A, annotation properties P    *)
(* and Q (P a subproperty of Q), the undeclared property U, and up to        *)
(* MaxAnnotAxioms annotation assertions, cyclic and reflexive ones included. *)

AnnotCandidates ==
    {AnnotationAssertion("A", "P", "bar"),
     AnnotationAssertion("A", rdfslabel, "Foo"),
     AnnotationAssertion("A", "U", "x"),
     AnnotationAssertion("P", "Q", "x"),
     AnnotationAssertion("Q", "P", "x"),
     AnnotationAssertion("P", "P", "x")}

PlainDeclarations ==
    {Declaration(ClassA, ""), Declaration(PropP, ""), Declaration(PropQ, ""),
     Declaration(Entity(rdfslabel, ANNOTATION_PROPERTY), "")}

\* Where the declarations and the annotation assertions live: in the import,
\* with the class declared in the ontology itself as well; or in the
\* ontology itself, with the class declared a second time, by an annotated
\* declaration axiom, in the import.
AnnotSourcesWith(annots) ==
    LET base == {Opaque("ax"), SubAxiom(ANNOTATION_PROPERTY, "P", "Q")}
    IN  {[root |-> base \cup {Declaration(ClassA, "")},
          imp |-> PlainDeclarations \cup annots,
          ontologyIRI |-> "http://example.org/src", versionIRI |-> None],
         [root |-> base \cup PlainDeclarations \cup annots,
          imp |-> {Declaration(ClassA, "annotated")},
          ontologyIRI |-> "http://example.org/src", versionIRI |-> None]}

AnnotSources ==
    UNION {AnnotSourcesWith(annots) :
              annots \in BoundedSubsets(AnnotCandidates, MaxAnnotAxioms)}

\* Results of the locality algorithm on a source: axioms of its imports
\* closure.
AnnotSlmeResults(src) ==
    {{Opaque("ax"), Declaration(PropP, "")},
     {Opaque("ax")} \cup annotationAxiomsOf(getImportsClosure(src), ClassA)}

AnnotIDs == {"A", "P"}

InitAnnot ==
    \E src \in AnnotSources : \E slme \in AnnotSlmeResults(src) : InitOn(src, slme)

\* Requests under any method followed by extraction.
NextAnnot ==
    \/ \E id \in AnnotIDs, method \in all_methods : addEntity(id, method, FALSE)
    \/ extractModule("http://example.org/module")
    \/ getEntitiesInHierarchiesStep
    \/ getEntitiesInHierarchiesReturn
    \/ extractSingleEntitiesStep
    \/ extractModuleReturn

SpecAnnot == InitAnnot /\ [][NextAnnot]_vars

FairSpecAnnot ==
    /\ SpecAnnot
    /\ WF_vars(extractSingleEntitiesStep)
    /\ WF_vars(extractModuleReturn)

----------------------------------------------------------------------------
(* The engine as a whole, on a source with classes A < B, annotation         *)
(* property P declared in the import, individual I and the unknown IRI U.    *)

MainRoot ==
    {Opaque("ax"),
     Declaration(ClassA, ""), Declaration(ClassB, ""),
     Declaration(Entity("I", NAMED_INDIVIDUAL), ""),
     SubAxiom(CLASS, "A", "B"), SubAxiom(CLASS, "B", Anonymous),
     AnnotationAssertion("A", "P", "bar"),
     AnnotationAssertion("A", rdfslabel, "Foo"),
     AnnotationAssertion("B", "P", "baz")}

MainImport ==
    {Declaration(ClassA, ""), Declaration(PropP, ""),
     AnnotationAssertion("P", rdfslabel, "has source")}

\* The ontology id: ontology IRI and version IRI, ontology IRI only, neither.
OntologyIDs ==
    {<<"http://example.org/src", "http://example.org/1.0">>,
     <<"http://example.org/src", None>>,
     <<None, None>>}

\* The import can declare B a second time, by an annotated declaration axiom.
MainSources ==
    {[root |-> MainRoot, imp |-> MainImport,
      ontologyIRI |-> id[1], versionIRI |-> id[2]] : id \in OntologyIDs}
    \cup {[root |-> MainRoot,
           imp |-> MainImport \cup {Declaration(ClassB, "annotated")},
           ontologyIRI |-> "http://example.org/src", versionIRI |-> None]}

MainSlmeResults ==
    {{Opaque("ax")},
     {Opaque("ax"), Declaration(ClassB, ""), SubAxiom(CLASS, "A", "B")}}

EntityIDs == {"A", "ex:A", "B", "P", "I", "U", "not an iri"}

Init == \E src \in MainSources, slme \in MainSlmeResults : InitOn(src, slme)

Next ==
    \/ \E id \in EntityIDs, method \in all_methods, include_branch \in BOOLEAN :
          addEntity(id, method, include_branch)
    \/ clearSignatures
    \/ \E mod_iri \in ModuleIRIs : extractModule(mod_iri)
    \/ getEntitiesInHierarchiesStep
    \/ getEntitiesInHierarchiesReturn
    \/ extractSingleEntitiesStep
    \/ extractModuleReturn

Spec == Init /\ [][Next]_vars

----------------------------------------------------------------------------
(* Single-entity extraction and the assembled module. *)

\* All axioms of the source imports closure.
SourceAxioms == source.root \cup source.imp

DeclarationsOf(axioms, ent) ==
    {ax \in axioms : isDeclaration(ax) /\ getEntity(ax) = ent}

AnnotationProperty(iri) == Entity(iri, ANNOTATION_PROPERTY)

DeclaredInModule(ent) == DeclarationsOf(modont.axioms, ent) # {}

DeclaredInSource(ent) == DeclarationsOf(SourceAxioms, ent) # {}

\* The entities the single-entity loop has processed and their IRIs.
Extracted == singlePops[1]
ExtractedIRIs == {getIRI(ent) : ent \in Extracted}

\* C4: the single-entity loop terminates on every source, also when
\* annotation properties annotate each other or themselves; an entity that
\* the loop put on its work queue is not declared in the target module, and
\* a processed entity, now declared there, is not on the queue again.
C4_SingleLoopTerminates ==
    /\ [](pc = "single" =>
            /\ \A ent \in signatures[SINGLE] \ (seeds[SINGLE] \cup hierset) :
                  DeclarationsOf(modont.axioms, ent) = {}
            /\ signatures[SINGLE] \cap Extracted = {})
    /\ (pc = "single") ~> (pc = "done")

\* P annotates itself and is annotated by Q, which it annotates: all extracted.
C4_Witness ==
    /\ pc = "done"
    /\ {AnnotationAssertion("P", "P", "x"), AnnotationAssertion("P", "Q", "x")}
           \subseteq SourceAxioms
    /\ seeds[SINGLE] = {PropP}
    /\ Extracted = {PropP, PropQ}

\* The predicate of an annotation assertion is covered: it is rdfs:label, or
\* has no declaration in the source (a built-in), or is declared in the module.
PredicateCovered(ax) ==
    \/ getProperty(ax) = rdfslabel
    \/ ~DeclaredInSource(AnnotationProperty(getProperty(ax)))
    \/ DeclaredInModule(AnnotationProperty(getProperty(ax)))

\* C5 as claimed: in every returned module the predicate of every annotation
\* assertion is declared in the module, built-ins excepted.
C5_Original ==
    pc = "done" =>
        \A ax \in modont.axioms : isAnnotationAssertion(ax) => PredicateCovered(ax)

\* C5: in every returned module the predicate of every annotation assertion
\* about an entity processed by single-entity extraction is declared in the
\* module, built-ins excepted.
C5_AnnotationClosure ==
    pc = "done" =>
        \A ax \in modont.axioms :
            (isAnnotationAssertion(ax) /\ getSubject(ax) \in ExtractedIRIs)
                => PredicateCovered(ax)

\* Class A annotated with P only, requested under Single.
C5_Witness ==
    /\ pc = "done"
    /\ seeds = [EmptySignatures EXCEPT ![SINGLE] = {ClassA}]
    /\ modont.axioms = {Declaration(ClassA, ""),
                        AnnotationAssertion("A", "P", "bar"),
                        Declaration(PropP, "")}

\* C6 as claimed: no entity has more than one declaration axiom in a
\* returned module.
C6_Original ==
    pc = "done" =>
        \A ax1, ax2 \in modont.axioms :
            (isDeclaration(ax1) /\ isDeclaration(ax2)
                 /\ getEntity(ax1) = getEntity(ax2)) => ax1 = ax2

\* C6: in a returned module the declaration axioms of an extracted entity
\* are exactly the distinct declaration axioms the source imports closure
\* and the locality result hold for it, and every declaration axiom of the
\* module comes from there: an entity has more than one only if they do.
C6_DeclarationsAsInSource ==
    pc = "done" =>
        /\ \A ent \in Extracted :
              DeclarationsOf(modont.axioms, ent) =
                  DeclarationsOf(SourceAxioms \cup locContrib, ent)
        /\ \A ax \in modont.axioms :
              isDeclaration(ax) =>
                  /\ ax \in SourceAxioms \cup locContrib
                  /\ getEntity(ax) \in Extracted \/ ax \in locContrib
                  /\ Cardinality(DeclarationsOf(SourceAxioms \cup locContrib,
                                                getEntity(ax))) = 1
                         => DeclarationsOf(modont.axioms, getEntity(ax)) = {ax}

\* B is an ancestor of the Hierarchy entity A and is requested under Single
\* as well; A is declared in both ontologies: one declaration axiom each.
C6_Witness ==
    /\ pc = "done"
    /\ seeds[HIERARCHY] = {ClassA}
    /\ seeds[SINGLE] = {ClassB}
    /\ Declaration(ClassA, "") \in source.root \cap source.imp
    /\ DeclarationsOf(modont.axioms, ClassA) = {Declaration(ClassA, "")}
    /\ DeclarationsOf(modont.axioms, ClassB) = {Declaration(ClassB, "")}

\* C7: with an empty Locality set extractModule does not call the locality
\* algorithm and the module is empty when the hierarchy step starts, although
\* the algorithm returns axioms for the empty signature.
C7_LocalityEmptyGuard ==
    (pc \in {"hier", "single", "done"} /\ seeds[LOCALITY] = {}) =>
        /\ slmeCalls = 0
        /\ locContrib = {}
        /\ pc = "hier" => modont.axioms = {}
        /\ slmeExtract({}) # {}

C7_Witness ==
    /\ pc = "hier"
    /\ seeds[LOCALITY] = {}
    /\ seeds[SINGLE] = {ClassA}
    /\ slmeExtract(seeds[LOCALITY]) # {}
    /\ modont.axioms = {}

\* C8: the returned module carries one dc:source annotation with the source's
\* version IRI if it has one, else with its ontology IRI, else none.
C8_Provenance ==
    pc = "done" =>
        modont.annotations =
            IF source.versionIRI # None
            THEN {<<SOURCE_PROP_IRI, source.versionIRI>>}
            ELSE IF source.ontologyIRI # None
            THEN {<<SOURCE_PROP_IRI, source.ontologyIRI>>}
            ELSE {}

C8_Witness ==
    /\ pc = "done"
    /\ source.ontologyIRI = "http://example.org/src"
    /\ source.versionIRI = "http://example.org/1.0"
    /\ modont.annotations = {<<SOURCE_PROP_IRI, "http://example.org/1.0">>}

\* C9: the returned module contains, for every entity of the hierarchy
\* closure of the Hierarchy seeds, all its declaration and annotation
\* assertion axioms of the source imports closure, and all hierarchy axioms.
C9_ClosureFedToSingle ==
    pc = "done" =>
        LET closure == ReachableFrom(seeds[HIERARCHY], source.root)
        IN  /\ \A ent \in closure :
                  /\ DeclarationsOf(SourceAxioms, ent) \subseteq modont.axioms
                  /\ getAnnotationAssertionAxioms(SourceAxioms, getIRI(ent))
                         \subseteq modont.axioms
            /\ NamedSubAxiomsOf(source.root, closure) \subseteq modont.axioms

\* A requested under Hierarchy only: its ancestor B is extracted too.
C9_Witness ==
    /\ pc = "done"
    /\ seeds = [EmptySignatures EXCEPT ![HIERARCHY] = {ClassA}]
    /\ {Declaration(ClassB, ""), AnnotationAssertion("B", "P", "baz"),
        SubAxiom(CLASS, "A", "B")} \subseteq modont.axioms

\* The module extractModule would return if it ran the locality step after
\* the hierarchy and single-entity steps.
LocalityLastAxioms ==
    extractSingleEntities(seeds[SINGLE] \cup hierset, {}, source)
        \cup axiomset
        \cup (IF seeds[LOCALITY] # {} THEN slmeAxioms ELSE {})

\* C10 as claimed: both orders of the locality step yield the same axioms.
C10_Original ==
    pc = "done" => modont.axioms = LocalityLastAxioms

LocalityDeclaresAnnotationProperty ==
    \E ax \in locContrib :
        isDeclaration(ax) /\ getEntityType(getEntity(ax)) = ANNOTATION_PROPERTY

\* C10: the module is a subset of what the locality-last order yields, and
\* equal to it when the locality result declares no annotation property.
C10_OrderUpToLocalityDeclarations ==
    pc = "done" =>
        /\ modont.axioms \subseteq LocalityLastAxioms
        /\ ~LocalityDeclaresAnnotationProperty
               => modont.axioms = LocalityLastAxioms

\* Locality and single-entity extraction both ran and the orders agree.
C10_Witness ==
    /\ pc = "done"
    /\ seeds[LOCALITY] = {PropP}
    /\ seeds[SINGLE] = {ClassA}
    /\ ~LocalityDeclaresAnnotationProperty
    /\ AnnotationAssertion("P", "Q", "x") \in modont.axioms
    /\ modont.axioms = LocalityLastAxioms

----------------------------------------------------------------------------
(* The signature registry: addEntity and clearSignatures. *)

EntityKinds ==
    {CLASS, OBJECT_PROPERTY, DATA_PROPERTY, ANNOTATION_PROPERTY, NAMED_INDIVIDUAL}

\* The identifier expands to an IRI the source imports closure declares as
\* an entity of one of the kinds.
DeclaredAs(entity_id, kinds) ==
    /\ expandIRI(entity_id) # None
    /\ \E kind \in kinds : DeclaredInSource(Entity(expandIRI(entity_id), kind))

\* The step is a call of addEntity; its arguments are in call'.
AddEntityStep == nAdds' # nAdds

\* C11 as claimed: addEntity fails exactly for the identifiers the source
\* closure declares as no entity of any kind, and then changes no policy set.
C11_Original ==
    [][AddEntityStep =>
          IF DeclaredAs(call'.id, EntityKinds)
          THEN error' = NoError
          ELSE error' = RuntimeError /\ signatures' = signatures]_vars

\* C11: addEntity fails, at the call, exactly for the identifiers the source
\* closure declares neither as a class nor as an object, data or annotation
\* property (a declared individual included), and then changes no policy
\* set; the registry only ever holds entities the source closure declares.
C11_NotFoundAtAddEntity ==
    [][AddEntityStep =>
          /\ IF DeclaredAs(call'.id, EntityKinds \ {NAMED_INDIVIDUAL})
             THEN error' = NoError
             ELSE error' = RuntimeError /\ signatures' = signatures
          /\ \A method \in all_methods : \A ent \in signatures'[method] :
                DeclaredInSource(ent)]_vars

\* The unknown identifier U was refused after A had been added.
C11_Witness ==
    /\ call = Call("addEntity", "U", SINGLE, FALSE)
    /\ error = RuntimeError
    /\ signatures = [EmptySignatures EXCEPT ![LOCALITY] = {ClassA}]

\* C12: an addEntity call for an entity that already is in the set of the
\* method leaves the registry as it is.
C12_IdempotentRegistration ==
    [][AddEntityStep =>
          \A ent \in signatures[call'.method] :
              getIRI(ent) = expandIRI(call'.id) => signatures' = signatures]_vars

\* A was added under Single by both calls made, the second time by its curie.
C12_Witness ==
    /\ nAdds = 2
    /\ call = Call("addEntity", "ex:A", SINGLE, FALSE)
    /\ error = NoError
    /\ signatures = [EmptySignatures EXCEPT ![SINGLE] = {ClassA}]

\* C13: a successful addEntity adds the entity to the set of its method and
\* leaves the sets of the other methods as they are.
C13_OnlyTheGivenPolicy ==
    [][(AddEntityStep /\ error' = NoError) =>
          /\ \E ent \in signatures'[call'.method] :
                /\ getIRI(ent) = expandIRI(call'.id)
                /\ signatures'[call'.method] = signatures[call'.method] \cup {ent}
          /\ \A method \in all_methods \ {call'.method} :
                signatures'[method] = signatures[method]]_vars

\* A is in the Locality set and was then added to the Hierarchy set as well.
C13_Witness ==
    /\ call = Call("addEntity", "A", HIERARCHY, FALSE)
    /\ error = NoError
    /\ signatures = [EmptySignatures EXCEPT ![LOCALITY] = {ClassA},
                                            ![HIERARCHY] = {ClassA}]

\* The classes and properties below the entity in the source ontology.
DescendantsOf(ent) ==
    {getSub(ax) : ax \in {a \in source.root : isSubAxiom(a)
                             /\ getSub(a) # ent
                             /\ ent \in ReachableFrom({getSub(a)}, source.root)}}

C15_Original ==
    [][(AddEntityStep /\ error' = NoError /\ call'.include_branch) =>
          DescendantsOf(resolveEntity(source, call'.id))
              \subseteq signatures'[call'.method]]_vars

\* C16: clearSignatures can be called in every state between two calls,
\* raises nothing and leaves the three sets empty; so does construction.
C16_ClearEmptiesAll ==
    /\ call = NoCall => signatures = EmptySignatures
    /\ call.op = "clearSignatures" =>
          /\ error = NoError
          /\ \A method \in all_methods : signatures[method] = {}
    /\ pc \in {"idle", "done"} => ENABLED clearSignatures

\* The registry was cleared after a module with A under Locality was
\* extracted: the Locality set, which extraction leaves alone, held A.
C16_Witness ==
    /\ call.op = "clearSignatures"
    /\ pc = "done"
    /\ seeds[LOCALITY] = {ClassA}
    /\ signatures = EmptySignatures

\* C17: extractModule with a module IRI that is not an IRI reference raises
\* the error in the call: no extraction step starts, no module is created or
\* changed, and the registry is as it was.
C17_InvalidModuleIRI ==
    [][(nExtracts' # nExtracts /\ call'.id \in InvalidIRIStrings) =>
          /\ error' = RuntimeError
          /\ pc' = pc
          /\ modont' = modont
          /\ signatures' = signatures
          /\ slmeCalls' = slmeCalls]_vars

\* The call failed with A in the Single set; there is no module.
C17_Witness ==
    /\ call = Call("extractModule", "not an iri", LOCALITY, FALSE)
    /\ error = RuntimeError
    /\ pc = "idle"
    /\ modont = NoModule
    /\ signatures = [EmptySignatures EXCEPT ![SINGLE] = {ClassA}]

\* C18: no step changes the source ontologies or the source's ontology id;
\* a successful extractModule call starts a module of its own, which holds
\* what the locality step wrote and nothing else.
C18_SourceUnchanged ==
    [][/\ source' = source
       /\ (nExtracts' # nExtracts /\ error' = NoError)
              => modont'.axioms = locContrib']_vars

\* A module was extracted from the imports closure of this source.
C18_Witness ==
    /\ pc = "done"
    /\ source.root = MainRoot
    /\ source.imp = MainImport
    /\ {Declaration(ClassA, ""), Declaration(PropP, "")} \subseteq modont.axioms

\* The registry held entities under Single only when extractModule was called.
OnlySingleUsed ==
    /\ seeds[LOCALITY] = {}
    /\ seeds[HIERARCHY] = {}
    /\ seeds[SINGLE] # {}

DeclaredEntities(axioms) == {getEntity(ax) : ax \in {a \in axioms : isDeclaration(a)}}

\* The entities above the entities of S in the source ontology.
AncestorsOf(S) == ReachableFrom(S, source.root) \ S

\* C19 as claimed: with Single only the module holds declaration and
\* annotation assertion axioms only and declares no ancestor of a requested
\* entity that was not requested itself.
C19_Original ==
    (pc = "done" /\ OnlySingleUsed) =>
        /\ \A ax \in modont.axioms : isDeclaration(ax) \/ isAnnotationAssertion(ax)
        /\ DeclaredEntities(modont.axioms) \cap AncestorsOf(seeds[SINGLE])
               \subseteq seeds[SINGLE]

\* C19: with Single only the module holds declaration and annotation
\* assertion axioms only, and every entity it declares was requested or is
\* an annotation property used by an annotation assertion of the module.
C19_SingleOnly ==
    (pc = "done" /\ OnlySingleUsed) =>
        /\ \A ax \in modont.axioms : isDeclaration(ax) \/ isAnnotationAssertion(ax)
        /\ \A ent \in DeclaredEntities(modont.axioms) :
              \/ ent \in seeds[SINGLE]
              \/ \E ax \in modont.axioms :
                    /\ isAnnotationAssertion(ax)
                    /\ ent = AnnotationProperty(getProperty(ax))

\* P, a subproperty of Q and annotated with itself, was requested: Q and the
\* subproperty axiom are not in the module.
C19_Witness ==
    /\ pc = "done"
    /\ OnlySingleUsed
    /\ seeds[SINGLE] = {PropP}
    /\ AncestorsOf({PropP}) = {PropQ}
    /\ modont.axioms = {Declaration(PropP, ""), AnnotationAssertion("P", "P", "x")}

----------------------------------------------------------------------------
(* The registry and the module after extractModule has returned. *)

\* extractModule has returned and no other call was made since.
ExtractModuleReturned == pc = "done" /\ call.op = "extractModule"

\* The module extractModule returns is the one the loops built step by step.
ExtractModuleAxiomsAgree ==
    ExtractModuleReturned => modont.axioms = extractModuleAxioms(seeds, source)

\* C23 as claimed: when extractModule has returned, the three sets of the
\* registry hold the entities they held when it was called.
C23_Original ==
    ExtractModuleReturned => signatures = seeds

\* C24 as claimed: a second extractModule call made right after the first
\* returns a module with the same axioms.
C24_Original ==
    ExtractModuleReturned =>
        extractModuleAxioms(signatures, source) = modont.axioms

\* The step is an iteration of the single-entity loop.
SingleStep == pc = "single" /\ singlePops' # singlePops

\* C25: an iteration of the single-entity loop copies every annotation
\* assertion about the entity it took from the queue; it does not put
\* rdfs:label on the queue, nor a predicate the source does not declare; it
\* puts every other predicate on the queue that the target does not declare.
C25_LabelAndBuiltinsSkipped ==
    [][SingleStep =>
          LET owlent == CHOOSE ent \in signatures[SINGLE] :
                            ent \notin signatures'[SINGLE]
              annots == getAnnotationAssertionAxioms(SourceAxioms, getIRI(owlent))
              enqueued == signatures'[SINGLE] \ signatures[SINGLE]
          IN  /\ annots \subseteq modont'.axioms
              /\ AnnotationProperty(rdfslabel) \notin enqueued
              /\ \A ent \in enqueued : DeclaredInSource(ent)
              /\ \A ax \in annots :
                    (/\ getProperty(ax) # rdfslabel
                     /\ DeclaredInSource(AnnotationProperty(getProperty(ax)))
                     /\ DeclarationsOf(modont'.axioms,
                                       AnnotationProperty(getProperty(ax))) = {})
                        => AnnotationProperty(getProperty(ax))
                               \in signatures'[SINGLE]]_vars

\* A, with a label and an annotation by the undeclared U, was requested under
\* Single: both assertions are in the module, no property was extracted.
C25_Witness ==
    /\ pc = "done"
    /\ seeds = [EmptySignatures EXCEPT ![SINGLE] = {ClassA}]
    /\ DeclaredInSource(AnnotationProperty(rdfslabel))
    /\ Extracted = {ClassA}
    /\ {AnnotationAssertion("A", rdfslabel, "Foo"),
        AnnotationAssertion("A", "U", "x")} \subseteq modont.axioms

----------------------------------------------------------------------------
(* Build targets (ontobuilder.buildtarget, used by onto_buildtarget.py and   *)
(* exercised by test_buildtarget.py).  A target is a number; build.cls is    *)
(* its class, build.dependencies the targets added with addDependency, in    *)
(* the order of the calls, and build.ret the last call with its result.      *)

Targets == 1 .. MaxTargets

\* The two concrete targets of the test.
Target1 == "Target1"
Target2 == "Target2"

\* The result of a call: the value isBuildRequired() returned, or the error
\* run() raised, or the products run() returned (pairs of key and value).
Ret(op, target, value, err, products) ==
    [op |-> op, target |-> target, value |-> value, error |-> err,
     products |-> products]

NoRet == Ret("none", 0, FALSE, NoError, {})

\* _isBuildRequired() of the concrete targets: False for Target1, True for
\* Target2.
_isBuildRequired(b, target) == b.cls[target] = Target2

\* A variant of isBuildRequired that does not ask the dependencies.
isBuildRequiredOwnOnly(b, target) == _isBuildRequired(b, target)

\* BuildTarget.isBuildRequired(): a build is required if a dependency
\* requires one, or the target itself does.
RECURSIVE isBuildRequired(_, _)
isBuildRequired(b, target) ==
    \/ \E i \in 1 .. Len(b.dependencies[target]) :
          isBuildRequired(b, b.dependencies[target][i])
    \/ _isBuildRequired(b, target)

\* _run() of the concrete targets: the products of Target1 and of Target2.
TARGET1_PRODUCTS == {<<"product 1", "something">>}
TARGET2_PRODUCTS == {<<"product 2", "something else">>}
_run(b, target) ==
    IF b.cls[target] = Target1 THEN TARGET1_PRODUCTS ELSE TARGET2_PRODUCTS

\* The product names of a set of products.
productNames(products) == {product[1] : product \in products}

\* The two errors of run(): both are RuntimeErrors.
MergeError == "RuntimeError: Unable to merge product returned from build target"
DuplicateKeyError ==
    "RuntimeError: key that duplicates one of its dependency's product name keys"

RECURSIVE run(_, _)
RECURSIVE runDependencies(_, _, _, _)

\* A variant of run that does not run the dependencies.
runOwnOnly(b, target) == Ret("run", target, FALSE, NoError, _run(b, target))

\* A variant of run that merges the products without looking at their names.
runUnchecked(b, target) ==
    LET RECURSIVE all(_)
        all(i) == IF i > Len(b.dependencies[target]) THEN {}
                  ELSE run(b, b.dependencies[target][i]).products \cup all(i + 1)
    IN  Ret("run", target, FALSE, NoError, all(1) \cup _run(b, target))

\* BuildTarget.run(): runs the dependencies in the order they were added and
\* merges their products, then merges the products of the target's own
\* _run(); a product name met twice is an error.
run(b, target) ==
    LET deps == runDependencies(b, target, 1, {})
        own == _run(b, target)
    IN  IF deps.error # NoError THEN Ret("run", target, FALSE, deps.error, {})
        ELSE IF productNames(own) \cap productNames(deps.products) # {}
        THEN Ret("run", target, FALSE, DuplicateKeyError, {})
        ELSE Ret("run", target, FALSE, NoError, deps.products \cup own)

\* The loop of run() over the dependencies, from the i-th on.
runDependencies(b, target, i, results) ==
    IF i > Len(b.dependencies[target])
    THEN Ret("run", target, FALSE, NoError, results)
    ELSE LET r == run(b, b.dependencies[target][i])
         IN  IF r.error # NoError THEN r
             ELSE IF productNames(r.products) \cap productNames(results) # {}
             THEN Ret("run", target, FALSE, MergeError, {})
             ELSE runDependencies(b, target, i + 1, results \cup r.products)

\* target.addDependency(dependency).  A dependency is a target made after
\* the target and not added to it before.
addDependency(target, dependency) ==
    /\ dependency > target
    /\ \A i \in 1 .. Len(build.dependencies[target]) :
          build.dependencies[target][i] # dependency
    /\ build' = [build EXCEPT !.dependencies[target] = Append(@, dependency),
                              !.ret = NoRet]
    /\ UNCHANGED <<source, slmeAxioms, signatures, pc, modont, hierset, axiomset,
                   error, nAdds, nExtracts, hierPops, singlePops, seeds,
                   slmeCalls, locContrib, call, reader, table,
                   reasoner_man>>

\* A call of target.isBuildRequired().
isBuildRequiredCall(target) ==
    /\ build' = [build EXCEPT
                    !.ret = Ret("isBuildRequired", target,
                                isBuildRequired(build, target), NoError, {})]
    /\ UNCHANGED <<source, slmeAxioms, signatures, pc, modont, hierset, axiomset,
                   error, nAdds, nExtracts, hierPops, singlePops, seeds,
                   slmeCalls, locContrib, call, reader, table,
                   reasoner_man>>

\* A call of target.run().
runCall(target) ==
    /\ build' = [build EXCEPT !.ret = run(build, target)]
    /\ UNCHANGED <<source, slmeAxioms, signatures, pc, modont, hierset, axiomset,
                   error, nAdds, nExtracts, hierPops, singlePops, seeds,
                   slmeCalls, locContrib, call, reader, table,
                   reasoner_man>>

\* Targets of either class without dependencies; no extractor call is made.
InitBuild ==
    /\ InitExtractor([root |-> MainRoot, imp |-> MainImport,
                      ontologyIRI |-> None, versionIRI |-> None], {Opaque("ax")})
    /\ \E cls \in [Targets -> {Target1, Target2}] :
          build = [cls |-> cls,
                   dependencies |-> [target \in Targets |-> <<>>],
                   ret |-> NoRet]
    /\ NoTables

NextBuild ==
    \/ \E target, dependency \in Targets : addDependency(target, dependency)
    \/ \E target \in Targets : isBuildRequiredCall(target)
    \/ \E target \in Targets : runCall(target)

SpecBuild == InitBuild /\ [][NextBuild]_vars

\* The dependencies of a target and the targets reached through them.
DependenciesOf(target) ==
    {build.dependencies[target][i] : i \in 1 .. Len(build.dependencies[target])}

RECURSIVE DependencyClosure(_)
DependencyClosure(S) ==
    LET next == S \cup UNION {DependenciesOf(target) : target \in S}
    IN  IF next = S THEN S ELSE DependencyClosure(next)

\* C20: isBuildRequired() of a target is true exactly if its own check or
\* the isBuildRequired() of one of its dependencies is true, that is, if the
\* own check of the target or of a target it depends on, directly or not,
\* is true.
C20_BuildRequired ==
    build.ret.op = "isBuildRequired" =>
        LET target == build.ret.target
            result == build.ret.value
        IN  /\ result = (\/ build.cls[target] = Target2
                         \/ \E dependency \in DependenciesOf(target) :
                               isBuildRequired(build, dependency))
            /\ result = (\E t \in DependencyClosure({target}) : build.cls[t] = Target2)

\* A Target1 whose dependency is a Target2 requires a build.
C20_Witness ==
    /\ build.ret = Ret("isBuildRequired", 1, TRUE, NoError, {})
    /\ build.cls[1] = Target1
    /\ build.cls[2] = Target2
    /\ build.dependencies[1] = <<2>>

\* The results of run() of the dependencies of a target.
DependencyRuns(target) == {run(build, dependency) : dependency \in DependenciesOf(target)}

\* C21: when run() returns, it returns the products of the target's own
\* _run() together with the products its dependencies' run() returned, which
\* are the own products of the target and of all targets it depends on; without
\* dependencies run() always returns, exactly the own products.
C21_RunMergesProducts ==
    build.ret.op = "run" =>
        LET target == build.ret.target
        IN  /\ build.ret.error = NoError =>
                  /\ build.ret.products =
                        _run(build, target)
                            \cup UNION {r.products : r \in DependencyRuns(target)}
                  /\ build.ret.products =
                        UNION {_run(build, t) : t \in DependencyClosure({target})}
            /\ DependenciesOf(target) = {} =>
                  /\ build.ret.error = NoError
                  /\ build.ret.products = _run(build, target)

\* A Target1 with a Target2 as dependency returns the combined products.
C21_Witness ==
    /\ build.cls[1] = Target1
    /\ build.cls[2] = Target2
    /\ build.dependencies[1] = <<2>>
    /\ build.ret = Ret("run", 1, FALSE, NoError,
                       {<<"product 1", "something">>,
                        <<"product 2", "something else">>})

\* Two dependencies of the target return a product of the same name.
DependenciesConflict(target) ==
    \E i, j \in 1 .. Len(build.dependencies[target]) :
        /\ i # j
        /\ productNames(run(build, build.dependencies[target][i]).products)
              \cap productNames(run(build, build.dependencies[target][j]).products)
              # {}

\* The own products of the target have a name a dependency returned.
OwnConflict(target) ==
    \E r \in DependencyRuns(target) :
        productNames(_run(build, target)) \cap productNames(r.products) # {}

\* C22: run() raises a RuntimeError, and returns no products, exactly if the
\* run() of a dependency raised, or two dependencies returned a product of
\* the same name, or the own products have a name a dependency returned;
\* with dependencies that return, the first conflict raises the merge error,
\* the second alone the duplicate key error.
C22_RunConflicts ==
    build.ret.op = "run" =>
        LET target == build.ret.target
            failed == \E r \in DependencyRuns(target) : r.error # NoError
        IN  /\ build.ret.error \in {NoError, MergeError, DuplicateKeyError}
            /\ build.ret.error # NoError <=>
                  (failed \/ DependenciesConflict(target) \/ OwnConflict(target))
            /\ build.ret.error # NoError => build.ret.products = {}
            /\ (~failed /\ DependenciesConflict(target))
                  => build.ret.error = MergeError
            /\ (~failed /\ ~DependenciesConflict(target) /\ OwnConflict(target))
                  => build.ret.error = DuplicateKeyError

\* A Target1 with two Target2 dependencies: the products cannot be merged.
C22_Witness ==
    /\ build.cls = <<Target1, Target2, Target2>>
    /\ build.dependencies[1] = <<2, 3>>
    /\ build.ret = Ret("run", 1, FALSE, MergeError, {})

----------------------------------------------------------------------------
(* Reading tables: the reader's iteration, the column settings of a table,  *)
(* its rows and the lookups in a row.                                        *)

extractorVars == <<source, slmeAxioms, signatures, pc, modont, hierset, axiomset,
                   error, nAdds, nExtracts, hierPops, singlePops, seeds,
                   slmeCalls, locContrib, call>>

\* The sheets of the input files: a terms sheet whose header needs trimming
\* and lower-casing and that has an empty row, a sheet without ID column, a
\* sheet without any row, and a sheet that uses a column name twice.
TermsSheet == <<<<<<" ", "I", "d">>, Exclude>>,
                <<<<" ", "A", " ">>, <<"Y">>>>,
                <<<<>>, <<>>>>,
                <<<<"B">>, <<>>>>>>
LabelSheet == <<<<<<"L", "a", "b", "e", "l">>>>, <<<<" ", "f", "o", "o">>>>>>
EmptySheet == <<>>
DuplicateSheet == <<<<ID, <<"i", "d", " ">>, Exclude>>>>

Sheets == {TermsSheet, LabelSheet, EmptySheet, DuplicateSheet}

Workbooks == UNION {[1 .. n -> Sheets] : n \in 0 .. MaxTables}

\* The column names looked up in a row.
ColumnNames == {ID, <<"i", "d">>, Type, Exclude, Reasoner,
                <<"L", "A", "B", "E", "L">>}

NoIndex == -1

\* One next() call of the reader: the index passed to getTableByIndex (or
\* NoIndex), the exception raised (or NoError) and the sheet of the table
\* returned (or NoSheet).
LogEntry(index, result) ==
    [index |-> index, error |-> result.error, sheet |-> result.table.sheet]

\* A variant of __iter__ that keeps the position.
__iter__KeepingPosition ==
    /\ reader' = [reader EXCEPT !.log = <<>>,
                                !.restarted = @ \/ reader.log # <<>>]
    /\ UNCHANGED <<extractorVars, build, table, reasoner_man>>

\* BaseTableReader.__iter__
__iter__ ==
    /\ reader' = [reader EXCEPT !.curr_table = -1, !.log = <<>>,
                                !.restarted = @ \/ reader.log # <<>>]
    /\ UNCHANGED <<extractorVars, build, table, reasoner_man>>

\* BaseTableReader.next
readerNext ==
    /\ Len(reader.log) < MaxNexts
    /\ LET curr_table == reader.curr_table + 1
           stop == curr_table = reader.numtables
           result == IF stop THEN TableResult(NoTable, StopIteration)
                     ELSE getTableByIndex(reader, curr_table)
       IN  /\ reader' = [reader EXCEPT
                  !.curr_table = curr_table,
                  !.log = Append(@, LogEntry(IF stop THEN NoIndex ELSE curr_table,
                                             result))]
           /\ table' = IF result.error = NoError
                       THEN [NoTableState EXCEPT !.obj = result.table]
                       ELSE table
    /\ UNCHANGED <<extractorVars, build, reasoner_man>>

\* BaseTable.setRequiredColumns
setRequiredColumns(colnames) ==
    /\ table.obj.sheet # NoSheet
    /\ table' = [table EXCEPT
           !.obj.required_cols = [i \in 1 .. Len(colnames) |-> lower(colnames[i])],
           !.error = NoError]
    /\ UNCHANGED <<extractorVars, build, reader, reasoner_man>>

\* BaseTable.setOptionalColumns
setOptionalColumns(colnames) ==
    /\ table.obj.sheet # NoSheet
    /\ table' = [table EXCEPT
           !.obj.optional_cols = [i \in 1 .. Len(colnames) |-> lower(colnames[i])],
           !.error = NoError]
    /\ UNCHANGED <<extractorVars, build, reader, reasoner_man>>

\* The dict after the loop of setDefaultValues.
RECURSIVE withLowerCaseKeys(_, _)
withLowerCaseKeys(defaultvals, keys) ==
    IF keys = {} THEN defaultvals
    ELSE LET colname == CHOOSE k \in keys : TRUE
         IN  withLowerCaseKeys(setitem(defaultvals, lower(colname),
                                       defaultvals[colname]),
                               keys \ {colname})

\* BaseTable.setDefaultValues.  The loop adds keys to the dict it iterates
\* over; when a key is new, the interpreter may raise RuntimeError
\* ("dictionary changed size during iteration") before the assignment of
\* self.defaultvals, or complete the loop.
setDefaultValues(defaultvals) ==
    /\ table.obj.sheet # NoSheet
    /\ \/ /\ \E colname \in DOMAIN defaultvals : lower(colname) \notin DOMAIN defaultvals
          /\ table' = [table EXCEPT !.error = RuntimeError]
       \/ table' = [table EXCEPT
              !.obj.defaultvals = withLowerCaseKeys(defaultvals, DOMAIN defaultvals),
              !.error = NoError]
    /\ UNCHANGED <<extractorVars, build, reader, reasoner_man>>

\* The loop of _ExcelTable.next that finds the next non-empty row.
RECURSIVE nextNonEmptyRow(_, _, _)
nextNonEmptyRow(sheet, tbl, rowcnt) ==
    IF rowcnt < tbl.numrows
    THEN LET nextrow == sheet[rowcnt + 1]
             emptyrow == \A colnum \in 1 .. Len(tbl.colnames) :
                            nextrow[colnum] = <<>>
         IN  IF emptyrow THEN nextNonEmptyRow(sheet, tbl, rowcnt + 1)
             ELSE [rowcnt |-> rowcnt + 1, nextrow |-> nextrow, emptyrow |-> FALSE]
    ELSE [rowcnt |-> rowcnt, nextrow |-> <<>>, emptyrow |-> TRUE]

\* The loop of _ExcelTable.next that stores the cells in the row.
RECURSIVE withCells(_, _, _, _)
withCells(trow, colnames, nextrow, colnum) ==
    IF colnum > Len(colnames) THEN trow
    ELSE withCells(__setitem__(trow, colnames[colnum], nextrow[colnum]),
                   colnames, nextrow, colnum + 1)

\* _ExcelTable.next
tableNext ==
    /\ table.obj.sheet # NoSheet
    /\ LET tbl == table.obj
           found == nextNonEmptyRow(reader.wbook[tbl.sheet + 1], tbl, tbl.rowcnt)
       IN  table' =
               IF found.emptyrow
               THEN [table EXCEPT !.obj.rowcnt = found.rowcnt,
                                  !.error = StopIteration]
               ELSE [table EXCEPT
                        !.obj.rowcnt = found.rowcnt,
                        !.trow = withCells(TableRow(found.rowcnt, FileNameStr,
                                                    tbl.required_cols,
                                                    tbl.optional_cols,
                                                    tbl.defaultvals),
                                           tbl.colnames, found.nextrow, 1),
                        !.ret = NoLookup,
                        !.error = NoError]
    /\ UNCHANGED <<extractorVars, build, reader, reasoner_man>>

\* row[colname] on the last row returned.
__getitem__Call(colname) ==
    /\ table.trow.rownum > 0
    /\ table' = [table EXCEPT !.ret = __getitem__(table.trow, colname),
                              !.error = __getitem__(table.trow, colname).error]
    /\ UNCHANGED <<extractorVars, build, reader, reasoner_man>>

\* reader.getTableByIndex(index), called directly.
getTableByIndexCall(index) ==
    /\ table' = IF getTableByIndex(reader, index).error = NoError
                THEN [NoTableState EXCEPT !.obj = getTableByIndex(reader, index).table]
                ELSE [table EXCEPT !.error = getTableByIndex(reader, index).error]
    /\ UNCHANGED <<extractorVars, build, reader, reasoner_man>>

\* An ExcelTableReader on a workbook of up to MaxTables sheets.
InitReader ==
    /\ InitExtractor([root |-> MainRoot, imp |-> MainImport,
                      ontologyIRI |-> None, versionIRI |-> None], {Opaque("ax")})
    /\ build = NoBuild
    /\ \E wbook \in Workbooks : reader = ExcelTableReader(wbook)
    /\ table = NoTableState
    /\ reasoner_man = NoReasonerManager

\* Iterations over the tables of the reader.
NextReader ==
    \/ __iter__
    \/ readerNext

SpecReader == InitReader /\ [][NextReader]_vars

\* The workbooks whose tables are read row by row.
TableWorkbooks == {<<TermsSheet, LabelSheet>>, <<LabelSheet, DuplicateSheet>>}

InitTable ==
    /\ InitExtractor([root |-> MainRoot, imp |-> MainImport,
                      ontologyIRI |-> None, versionIRI |-> None], {Opaque("ax")})
    /\ build = NoBuild
    /\ \E wbook \in TableWorkbooks : reader = ExcelTableReader(wbook)
    /\ table = NoTableState
    /\ reasoner_man = NoReasonerManager

\* The tables of the reader taken by index, their column settings, their
\* rows and the lookups in a row.
NextTable ==
    \/ \E index \in -1 .. 2 : getTableByIndexCall(index)
    \/ \E colnames \in {ImportModuleBuilder_REQUIRED_COLS,
                        OntoBuildTarget_REQUIRED_COLS} :
          setRequiredColumns(colnames)
    \/ setOptionalColumns(ImportModuleBuilder_OPTIONAL_COLS)
    \/ setDefaultValues(ImportModuleBuilder_DEFAULT_COL_VALS)
    \/ tableNext
    \/ \E colname \in ColumnNames : __getitem__Call(colname)

SpecTable == InitTable /\ [][NextTable]_vars

\* C26: after __iter__(), the next() calls of a table reader return
\* getTableByIndex(0), getTableByIndex(1), ..., getTableByIndex(numtables - 1)
\* in this order, each once, the call after them raises StopIteration
\* without asking for a table, and a new __iter__() starts again at table 0.
C26_TablesInIndexOrder ==
    \A i \in 1 .. Len(reader.log) :
        /\ i <= reader.numtables =>
              reader.log[i] = LogEntry(i - 1, getTableByIndex(reader, i - 1))
        /\ i = reader.numtables + 1 =>
              reader.log[i] = LogEntry(NoIndex, TableResult(NoTable, StopIteration))

\* A second iteration over a workbook of two sheets returned the terms
\* table, then the label table, then raised StopIteration.
C26_Witness ==
    /\ reader.wbook = <<TermsSheet, LabelSheet>>
    /\ reader.restarted
    /\ reader.log = <<[index |-> 0, error |-> NoError, sheet |-> 0],
                      [index |-> 1, error |-> NoError, sheet |-> 1],
                      [index |-> NoIndex, error |-> StopIteration,
                       sheet |-> NoSheet]>>

\* C27 as stated: every next() after the one that raised StopIteration
\* raises StopIteration too and asks getTableByIndex for no table beyond
\* the last.
C27_Original ==
    \A i \in 1 .. Len(reader.log) :
        i > reader.numtables + 1 =>
            /\ reader.log[i].error = StopIteration
            /\ reader.log[i].index < reader.numtables

\* The lookup policy of a TableRow apart from the exception class: a column
\* that is present yields its trimmed cell whatever the case of the name, a
\* missing required column raises, any other missing column yields its
\* default or the empty string.
TableRowLookupPolicy ==
    table.ret # NoLookup =>
        LET trow == table.trow
            name == lower(table.ret.colname)
            tbl == table.obj
            column == CHOOSE c \in 1 .. Len(tbl.colnames) : tbl.colnames[c] = name
        IN  IF inList(name, tbl.colnames)
            THEN /\ table.ret.error = NoError
                 /\ table.ret.value =
                       strip(reader.wbook[tbl.sheet + 1][trow.rownum][column])
            ELSE IF inList(name, trow.required)
            THEN table.ret.error # NoError
            ELSE /\ table.ret.error = NoError
                 /\ table.ret.value =
                       IF name \in DOMAIN trow.defaults THEN trow.defaults[name]
                       ELSE <<>>

\* C28 as stated: a lookup in a TableRow is case-insensitive; a column that
\* is present yields its trimmed value, a missing required column raises
\* ColumnNameError, any other missing column yields its default or the
\* empty string without raising.
C28_Original ==
    table.ret # NoLookup =>
        LET trow == table.trow
            name == lower(table.ret.colname)
        IN  /\ table.ret.value = __getitem__(trow, name).value
            /\ table.ret.error = __getitem__(trow, name).error
            /\ IF name \in DOMAIN trow.data
               THEN /\ table.ret.error = NoError
                    /\ table.ret.value = trow.data[name]
                    /\ strip(table.ret.value) = table.ret.value
               ELSE IF inList(name, trow.required)
               THEN table.ret.error = ColumnNameError
               ELSE /\ table.ret.error = NoError
                    /\ table.ret.value =
                          IF name \in DOMAIN trow.defaults THEN trow.defaults[name]
                          ELSE <<>>

\* C29 as stated: once a table has the REQUIRED_COLS of ImportModuleBuilder,
\* row['ID'] on a row without ID column raises ColumnNameError.
C29_Original ==
    (/\ table.ret.colname = ID
     /\ table.trow.required =
           [i \in 1 .. Len(ImportModuleBuilder_REQUIRED_COLS) |->
               lower(ImportModuleBuilder_REQUIRED_COLS[i])]
     /\ lower(ID) \notin DOMAIN table.trow.data)
    => table.ret.error = ColumnNameError

----------------------------------------------------------------------------
(* The reasoner manager of ImportModuleBuilder.                              *)

elk == <<"e", "l", "k">>
hermit == <<"h", "e", "r", "m", "i", "t">>

\* The reasoner names asked for.
ReasonerNames == {<<"E", "L", "K">>, <<" ", "e", "l", "k", " ">>, HermiT,
                  <<"h", "e", "r", "m", "i", "t", " ">>,
                  <<"P", "e", "l", "l", "e", "t">>, <<>>}

\* Ontology.getELKReasoner / getHermitReasoner: every call creates a new
\* reasoner instance.
Instance(kind, id) == [kind |-> kind, id |-> id]

\* The instances in the cache.
cachedInstances(rm) == {rm.reasoners[name] : name \in DOMAIN rm.reasoners}

\* A variant of getReasoner that looks the name up as it was given.
getReasonerByGivenName(reasoner_name) ==
    LET rm == reasoner_man
        name == strip(lower(reasoner_name))
        cached == reasoner_name \in DOMAIN rm.reasoners
        inst == Instance(name, rm.created + 1)
    IN  /\ (~cached /\ name \in {elk, hermit}) => rm.created < MaxReasoners
        /\ reasoner_man' =
              IF cached
              THEN [rm EXCEPT !.op = "getReasoner", !.asked = reasoner_name,
                              !.error = NoError,
                              !.served = @ \cup {[name |-> reasoner_name,
                                                  instance |-> rm.reasoners[reasoner_name]]}]
              ELSE IF name \in {elk, hermit}
              THEN [rm EXCEPT !.op = "getReasoner", !.asked = reasoner_name,
                              !.error = NoError,
                              !.reasoners = setitem(@, reasoner_name, inst),
                              !.created = @ + 1,
                              !.served = @ \cup {[name |-> reasoner_name,
                                                  instance |-> inst]}]
              ELSE [rm EXCEPT !.op = "getReasoner", !.asked = reasoner_name,
                              !.error = RuntimeError]
        /\ UNCHANGED <<extractorVars, build, reader, table>>

\* _ReasonerManager.getReasoner
getReasoner(reasoner_name) ==
    LET rm == reasoner_man
        name == strip(lower(reasoner_name))
        cached == name \in DOMAIN rm.reasoners
        inst == Instance(name, rm.created + 1)
    IN  /\ (~cached /\ name \in {elk, hermit}) => rm.created < MaxReasoners
        /\ reasoner_man' =
              IF cached
              THEN [rm EXCEPT !.op = "getReasoner", !.asked = reasoner_name,
                              !.error = NoError,
                              !.served = @ \cup {[name |-> reasoner_name,
                                                  instance |-> rm.reasoners[name]]}]
              ELSE IF name \in {elk, hermit}
              THEN [rm EXCEPT !.op = "getReasoner", !.asked = reasoner_name,
                              !.error = NoError,
                              !.reasoners = setitem(@, name, inst),
                              !.created = @ + 1,
                              !.served = @ \cup {[name |-> reasoner_name,
                                                  instance |-> inst]}]
              ELSE [rm EXCEPT !.op = "getReasoner", !.asked = reasoner_name,
                              !.error = RuntimeError]
        /\ UNCHANGED <<extractorVars, build, reader, table>>

\* _ReasonerManager.disposeReasoners
disposeReasoners ==
    /\ reasoner_man' = [reasoner_man EXCEPT
           !.op = "disposeReasoners", !.asked = <<>>, !.error = NoError,
           !.disposed = @ \cup cachedInstances(reasoner_man),
           !.reasoners = EmptyDict,
           !.served = {}]
    /\ UNCHANGED <<extractorVars, build, reader, table>>

\* A _ReasonerManager without reasoners.
InitReasoner ==
    /\ InitExtractor([root |-> MainRoot, imp |-> MainImport,
                      ontologyIRI |-> None, versionIRI |-> None], {Opaque("ax")})
    /\ build = NoBuild
    /\ NoTables

NextReasoner ==
    \/ \E reasoner_name \in ReasonerNames : getReasoner(reasoner_name)
    \/ disposeReasoners

SpecReasoner == InitReasoner /\ [][NextReasoner]_vars

\* C30: between two disposals, the getReasoner calls whose names are equal
\* after lower-casing and trimming returned the same instance and no
\* reasoner type has two instances; an unrecognized name raises RuntimeError
\* and leaves the cache as it was; disposeReasoners disposes every cached
\* instance and empties the cache.
C30_OneReasonerPerType ==
    [][LET rm == reasoner_man'
       IN  /\ \A p, q \in rm.served :
                 (\/ strip(lower(p.name)) = strip(lower(q.name))
                  \/ p.instance.kind = q.instance.kind)
                 => p.instance = q.instance
           /\ \A p \in rm.served : p.instance \notin rm.disposed
           /\ (/\ rm.op = "getReasoner"
               /\ strip(lower(rm.asked)) \notin {elk, hermit})
              => /\ rm.error = RuntimeError
                 /\ rm.reasoners = reasoner_man.reasoners
                 /\ rm.created = reasoner_man.created
           /\ rm.op = "disposeReasoners"
              => /\ DOMAIN rm.reasoners = {}
                 /\ cachedInstances(reasoner_man) \subseteq rm.disposed
      ]_vars

\* "ELK" and " elk " were served the one ELK reasoner made after a disposal
\* of an earlier one.
C30_Witness ==
    /\ reasoner_man.served =
          {[name |-> <<"E", "L", "K">>, instance |-> Instance(elk, 2)],
           [name |-> <<" ", "e", "l", "k", " ">>, instance |-> Instance(elk, 2)]}
    /\ reasoner_man.disposed = {Instance(elk, 1)}
    /\ reasoner_man.created = 2

====
